---- MODULE Spec2Model ----
(***************************************************************************)
(* State-machine model of zlib-rs/src/crc32_pclmulqdq.rs: the CRC32        *)
(* folding engine (Accumulator), the Crc32Fold facade and the one-shot     *)
(* entry points crc32 / crc32_copy.                                        *)
(*                                                                         *)
(* A 128-bit register (__m128i) is the set of its bit positions 0..127     *)
(* that are 1; a u32 is the set of its 1 bits among 0..31.  XOR, AND, OR,  *)
(* byte shifts, byte shuffles and the carry-less multiplication are        *)
(* computed bit for bit.  A byte is an integer 0..255, a slice a sequence  *)
(* of bytes together with the address of its first byte modulo 16.         *)
(***************************************************************************)
EXTENDS Integers, Sequences, FiniteSets, TLC

(***************************************************************************)
(* Bounds of the model.                                                    *)
(***************************************************************************)
\* the longest stream (sum of the chunks fed to one Crc32Fold, or the
\* buffer of a one-shot call) is MaxBlocks 16-byte blocks plus 15 bytes
MaxBlocks == 8
\* the number of fold / fold_copy calls made on one Crc32Fold
MaxCalls == 2

(***************************************************************************)
(* Bit-level helpers.                                                      *)
(***************************************************************************)
Pow2(n) == 2 ^ n

\* the 1 bits of the w-bit number n
BitsOf(n, w) == {i \in 0..(w - 1) : (n \div Pow2(i)) % 2 = 1}

\* a u32 literal, written as its two 16-bit halves
U32(hi, lo) == {i \in 0..31 : IF i < 16 THEN (lo \div Pow2(i)) % 2 = 1
                                         ELSE (hi \div Pow2(i - 16)) % 2 = 1}

\* byte i (0..15) of register r, as a number
ByteOf(r, i) ==
    LET bit(b) == IF (8 * i + b) \in r THEN Pow2(b) ELSE 0
    IN bit(0) + bit(1) + bit(2) + bit(3) + bit(4) + bit(5) + bit(6) + bit(7)

\* the register holding the bytes s[1], s[2], ... (at most 16) in its low
\* bytes and zero above them
RegOfBytes(s) ==
    {k \in 0..127 : (k \div 8) < Len(s) /\ (s[(k \div 8) + 1] \div Pow2(k % 8)) % 2 = 1}

\* the n low bytes of register r as a byte sequence
BytesOfReg(r, n) == [i \in 1..n |-> ByteOf(r, i - 1)]

CRC32_INITIAL_VALUE == {}

\* const fn reg(input: [u32; 4]) -> __m128i
reg(input) == {k \in 0..127 : (k % 32) \in input[(k \div 32) + 1]}

(***************************************************************************)
(* The SSE / PCLMULQDQ intrinsics the file uses.                           *)
(***************************************************************************)
mm_xor_si128(a, b) == {k \in 0..127 : (k \in a) # (k \in b)}

mm_and_si128(a, b) == {k \in 0..127 : (k \in a) /\ (k \in b)}

mm_or_si128(a, b) == {k \in 0..127 : (k \in a) \/ (k \in b)}

\* shift right / left by n bytes, shifting in zeros
mm_srli_si128(a, n) == {k \in 0..127 : (k + 8 * n) \in a}

mm_slli_si128(a, n) == {k \in 0..127 : k >= 8 * n /\ (k - 8 * n) \in a}

\* the 64-bit half of a selected by an immediate bit
Half(a, hi) == IF hi THEN {k \in 0..63 : (k + 64) \in a} ELSE {k \in 0..63 : k \in a}

\* carry-less product of the half of a selected by imm bit 0 and the half
\* of b selected by imm bit 4
mm_clmulepi64_si128(a, b, imm) ==
    LET x == Half(a, imm % 2 = 1)
        y == Half(b, (imm \div 16) % 2 = 1)
    IN {k \in 0..126 : Cardinality({j \in y : (k - j) \in x}) % 2 = 1}

\* result byte i is 0 when bit 7 of mask byte i is set, else byte
\* (mask byte i & 15) of a
mm_shuffle_epi8(a, mask) ==
    {k \in 0..127 :
        LET i == k \div 8
        IN /\ (8 * i + 7) \notin mask
           /\ (8 * (ByteOf(mask, i) % 16) + (k % 8)) \in a}

\* _mm_extract_epi32(a, idx) as u32
mm_extract_epi32(a, idx) == {k \in 0..31 : (k + 32 * idx) \in a}

\* bitwise complement of a u32
NotU32(x) == {k \in 0..31 : k \notin x}

(***************************************************************************)
(* Accumulator: the four 128-bit lanes, fold[1..4] for the source's        *)
(* fold[0..3].                                                             *)
(***************************************************************************)
XMM_FOLD4 == reg(<<U32(\hc6e4, \h1596), U32(0, 1), U32(\h5444, \h2bd4), U32(0, 1)>>)

xmm_zero == reg(<<{}, {}, {}, {}>>)

\* Accumulator::new
Accumulator_new == <<reg(<<U32(\h9db4, \h2487), {}, {}, {}>>), xmm_zero, xmm_zero, xmm_zero>>

\* Accumulator::step
step(input) ==
    mm_xor_si128(mm_clmulepi64_si128(input, XMM_FOLD4, 1),
                 mm_clmulepi64_si128(input, XMM_FOLD4, 16))

\* Accumulator::fold_step::<N>
fold_step(N, fold) ==
    [i \in 1..4 |-> IF i + N <= 4 THEN fold[i + N] ELSE step(fold[i + N - 4])]

PSHUFB_SHF_TABLE ==
    <<
       reg(<<U32(\h8483, \h8281), U32(\h8887, \h8685), U32(\h8c8b, \h8a89), U32(\h008f, \h8e8d)>>),
       reg(<<U32(\h8584, \h8382), U32(\h8988, \h8786), U32(\h8d8c, \h8b8a), U32(\h0100, \h8f8e)>>),
       reg(<<U32(\h8685, \h8483), U32(\h8a89, \h8887), U32(\h8e8d, \h8c8b), U32(\h0201, \h008f)>>),
       reg(<<U32(\h8786, \h8584), U32(\h8b8a, \h8988), U32(\h8f8e, \h8d8c), U32(\h0302, \h0100)>>),
       reg(<<U32(\h8887, \h8685), U32(\h8c8b, \h8a89), U32(\h008f, \h8e8d), U32(\h0403, \h0201)>>),
       reg(<<U32(\h8988, \h8786), U32(\h8d8c, \h8b8a), U32(\h0100, \h8f8e), U32(\h0504, \h0302)>>),
       reg(<<U32(\h8a89, \h8887), U32(\h8e8d, \h8c8b), U32(\h0201, \h008f), U32(\h0605, \h0403)>>),
       reg(<<U32(\h8b8a, \h8988), U32(\h8f8e, \h8d8c), U32(\h0302, \h0100), U32(\h0706, \h0504)>>),
       reg(<<U32(\h8c8b, \h8a89), U32(\h008f, \h8e8d), U32(\h0403, \h0201), U32(\h0807, \h0605)>>),
       reg(<<U32(\h8d8c, \h8b8a), U32(\h0100, \h8f8e), U32(\h0504, \h0302), U32(\h0908, \h0706)>>),
       reg(<<U32(\h8e8d, \h8c8b), U32(\h0201, \h008f), U32(\h0605, \h0403), U32(\h0a09, \h0807)>>),
       reg(<<U32(\h8f8e, \h8d8c), U32(\h0302, \h0100), U32(\h0706, \h0504), U32(\h0b0a, \h0908)>>),
       reg(<<U32(\h008f, \h8e8d), U32(\h0403, \h0201), U32(\h0807, \h0605), U32(\h0c0b, \h0a09)>>),
       reg(<<U32(\h0100, \h8f8e), U32(\h0504, \h0302), U32(\h0908, \h0706), U32(\h0d0c, \h0b0a)>>),
       reg(<<U32(\h0201, \h008f), U32(\h0605, \h0403), U32(\h0a09, \h0807), U32(\h0e0d, \h0c0b)>>)
    >>

\* Accumulator::partial_fold: the lanes after folding the len low bytes of
\* xmm_crc_part
partial_fold(fold, xmm_crc_part, len) ==
    LET xmm_shl == PSHUFB_SHF_TABLE[len]
        x80 == U32(\h8080, \h8080)
        xmm_shr == mm_xor_si128(xmm_shl, reg(<<x80, x80, x80, x80>>))
        xmm_a0 == step(mm_shuffle_epi8(fold[1], xmm_shl))
        f0 == mm_or_si128(mm_shuffle_epi8(fold[1], xmm_shr), mm_shuffle_epi8(fold[2], xmm_shl))
        f1 == mm_or_si128(mm_shuffle_epi8(fold[2], xmm_shr), mm_shuffle_epi8(fold[3], xmm_shl))
        f2 == mm_or_si128(mm_shuffle_epi8(fold[3], xmm_shr), mm_shuffle_epi8(fold[4], xmm_shl))
        f3 == mm_or_si128(mm_shuffle_epi8(fold[4], xmm_shr),
                          mm_shuffle_epi8(xmm_crc_part, xmm_shl))
    IN <<f0, f1, f2, mm_xor_si128(f3, xmm_a0)>>

CRC_MASK1 == reg(<<U32(\hFFFF, \hFFFF), U32(\hFFFF, \hFFFF), {}, {}>>)

CRC_MASK2 == reg(<<{}, U32(\hFFFF, \hFFFF), U32(\hFFFF, \hFFFF), U32(\hFFFF, \hFFFF)>>)

RK1_RK2 == reg(<<U32(\hccaa, \h009e), {}, U32(\h7519, \h97d0), U32(0, 1)>>)

RK5_RK6 == reg(<<U32(\hccaa, \h009e), {}, U32(\h63cd, \h6124), U32(0, 1)>>)

RK7_RK8 == reg(<<U32(\hf701, \h1640), U32(0, 1), U32(\hdb71, \h0640), U32(0, 1)>>)

\* one "k1" combine step of finish: fold lane lo into lane hi
Combine(lo, hi) ==
    LET x_tmp == mm_clmulepi64_si128(lo, RK1_RK2, 16)
        lo1 == mm_clmulepi64_si128(lo, RK1_RK2, 1)
    IN mm_xor_si128(mm_xor_si128(hi, x_tmp), lo1)

\* Accumulator::finish
Accumulator_finish(fold) ==
    LET c1 == Combine(fold[1], fold[2])
        c2 == Combine(c1, fold[3])
        c3 == Combine(c2, fold[4])
        \* k5
        a0 == mm_srli_si128(c3, 8)
        a3 == mm_xor_si128(mm_clmulepi64_si128(c3, RK5_RK6, 0), a0)
        b3 == mm_and_si128(
                  mm_xor_si128(mm_clmulepi64_si128(mm_slli_si128(a3, 4), RK5_RK6, 16), a3),
                  CRC_MASK2)
        \* k7
        d3 == mm_and_si128(mm_xor_si128(mm_clmulepi64_si128(b3, RK7_RK8, 0), b3), CRC_MASK1)
        e3 == mm_xor_si128(mm_xor_si128(mm_clmulepi64_si128(d3, RK7_RK8, 16), d3), b3)
    IN NotU32(mm_extract_epi32(e3, 2))

(***************************************************************************)
(* fold_help.  Its local state is the record m:                            *)
(*   fold      the accumulator lanes                                       *)
(*   pos       bytes of src consumed (src = &src[pos..])                   *)
(*   dpos      bytes of dst skipped (dst = &mut dst[dpos..])               *)
(*   init_crc  the seed still to be applied                                *)
(*   part      xmm_crc_part                                                *)
(*   dst, wr   the destination's bytes, and how often each was stored      *)
(*   oob       a store reached beyond the destination slice                *)
(*   abort     "" while running, else the panic that ended the call        *)
(* and, recording what the call did:                                       *)
(*   prog      the progress::<N> calls, <<N, bytes remaining, succeeded>>  *)
(*   seeds     the src offsets of the blocks the seed was XORed into       *)
(*   preload   the extra block of lines 327-335 was folded                 *)
(*   partials  the len of each partial_fold call                           *)
(***************************************************************************)
Panic(m, why) == [m EXCEPT !.abort = why]

\* the 16 bytes of src at offset at, as a register (_mm_load_si128 /
\* _mm_loadu_si128)
Load16(src, at) == RegOfBytes(SubSeq(src, at + 1, at + 16))

\* a store of the byte sequence bytes at offset at of the original dst
Store(m, at, bytes) ==
    LET n == Len(m.dst)
        hit(i) == at < i /\ i <= at + Len(bytes)
    IN [m EXCEPT !.dst = [i \in 1..n |-> IF hit(i) THEN bytes[i - at] ELSE m.dst[i]],
                 !.wr = [i \in 1..n |-> IF hit(i) THEN m.wr[i] + 1 ELSE m.wr[i]],
                 !.oob = m.oob \/ at + Len(bytes) > n]

\* a variant of xor_initial that leaves init_crc set after use
xor_initial_keeps_seed(x, init_crc) ==
    [x |-> mm_xor_si128(x, reg(<<init_crc, {}, {}, {}>>)),
     init_crc |-> init_crc]

\* lines 263-267 and 321-325: XOR the seed into block x and clear it
xor_initial(x, init_crc) ==
    [x |-> mm_xor_si128(x, reg(<<init_crc, {}, {}, {}>>)),
     init_crc |-> CRC32_INITIAL_VALUE]

\* a variant of progress_ret with the COPY test inverted
progress_ret_inverted(N, COPY) == IF COPY THEN 0 ELSE N * 16

\* the value progress returns: how far the caller advances dst
progress_ret(N, COPY) == IF COPY THEN N * 16 ELSE 0

\* the COPY stores of progress: input[1..cnt] into the 16-byte chunks of dst
RECURSIVE progress_stores(_, _, _)
progress_stores(m, input, cnt) ==
    IF cnt = 0 THEN m
    ELSE Store(progress_stores(m, input, cnt - 1),
               m.dpos + 16 * (cnt - 1), BytesOfReg(input[cnt], 16))

Min(a, b) == IF a < b THEN a ELSE b

\* Accumulator::progress::<N, COPY>, followed by the caller's
\* dst = &mut dst[n..]
progress(N, COPY, src, m) ==
    LET rem == Len(src) - m.pos
        m1 == [m EXCEPT !.prog = Append(m.prog, <<N, rem, rem \div 16 >= 4>>)]
    IN IF rem \div 16 < 4
       THEN \* it.next().unwrap() on an exhausted chunks_exact(16)
            Panic(m1, "unwrap")
       ELSE LET input == [i \in 1..4 |-> Load16(src, m.pos + 16 * (i - 1))]
                seeded == ~COPY /\ m.init_crc # CRC32_INITIAL_VALUE
                xi == xor_initial(input[1], m.init_crc)
                input1 == IF seeded THEN [input EXCEPT ![1] = xi.x] ELSE input
                m2 == IF COPY
                      THEN progress_stores(m1, input, Min(N, (Len(m.dst) - m.dpos) \div 16))
                      ELSE m1
                stepped == fold_step(N, m.fold)
                n == progress_ret(N, COPY)
            IN IF n > Len(m.dst) - m.dpos
               THEN Panic(m2, "slice")
               ELSE [m2 EXCEPT
                       !.pos = m.pos + N * 16,
                       !.init_crc = IF seeded THEN xi.init_crc ELSE m.init_crc,
                       !.seeds = IF seeded THEN Append(m.seeds, m.pos) ELSE m.seeds,
                       !.fold = [i \in 1..4 |->
                                   IF i > 4 - N
                                   THEN mm_xor_si128(stepped[i], input1[i - (4 - N)])
                                   ELSE stepped[i]],
                       !.dpos = m.dpos + n]

\* lines 357-360: while src.len() >= 64 { progress::<4> }
RECURSIVE bulk4(_, _, _)
bulk4(COPY, src, m) ==
    IF m.abort # "" \/ Len(src) - m.pos < 64 THEN m
    ELSE bulk4(COPY, src, progress(4, COPY, src, m))

\* lines 362-371
bulk_rest(COPY, src, m) ==
    LET rem == Len(src) - m.pos
    IN IF m.abort # "" THEN m
       ELSE IF rem >= 48 THEN progress(3, COPY, src, m)
       ELSE IF rem >= 32 THEN progress(2, COPY, src, m)
       ELSE IF rem >= 16 THEN progress(1, COPY, src, m)
       ELSE m

\* lines 314-341: the unaligned head; addr is src.as_ptr() modulo 16
head(COPY, src, addr, m) ==
    LET align_diff == (16 - (addr % 16)) % 16
        loaded == Load16(src, 0)
    IN IF align_diff = 0 THEN m
       ELSE IF COPY
       THEN LET m1 == Store(m, 0, BytesOfReg(loaded, 16))
            IN [m1 EXCEPT !.dpos = align_diff,
                          !.part = loaded,
                          !.fold = partial_fold(m.fold, loaded, align_diff),
                          !.partials = Append(m.partials, align_diff),
                          !.pos = align_diff]
       ELSE LET seeded == m.init_crc # CRC32_INITIAL_VALUE
                xi == xor_initial(loaded, m.init_crc)
                part1 == IF seeded THEN xi.x ELSE loaded
                init1 == IF seeded THEN xi.init_crc ELSE m.init_crc
                seeds1 == IF seeded THEN Append(m.seeds, 0) ELSE m.seeds
                extra == align_diff < 4 /\ init1 # CRC32_INITIAL_VALUE
            IN IF extra /\ Len(src) < 32
               THEN \* the load of the second block reads past the slice, and
                    \* &src[16..][align_diff..] is out of range
                    Panic([m EXCEPT !.seeds = seeds1, !.init_crc = init1], "slice")
               ELSE LET part2 == IF extra THEN Load16(src, 16) ELSE part1
                        fold2 == IF extra
                                 THEN LET f == fold_step(1, m.fold)
                                      IN [f EXCEPT ![4] = mm_xor_si128(f[4], part1)]
                                 ELSE m.fold
                        pos2 == IF extra THEN 16 ELSE 0
                    IN [m EXCEPT !.seeds = seeds1,
                                 !.init_crc = init1,
                                 !.preload = extra,
                                 !.part = part2,
                                 !.fold = partial_fold(fold2, part2, align_diff),
                                 !.partials = Append(m.partials, align_diff),
                                 !.pos = pos2 + align_diff]

\* lines 374-386: the tail of fewer than 16 bytes
tail(COPY, src, m) ==
    LET rem == Len(src) - m.pos
        bytes == SubSeq(src, m.pos + 1, Len(src))
        \* copy_nonoverlapping overwrites the low rem bytes of xmm_crc_part
        part1 == {k \in 0..127 : IF k < 8 * rem THEN k \in RegOfBytes(bytes)
                                                ELSE k \in m.part}
        m1 == IF COPY THEN Store(m, m.dpos, BytesOfReg(part1, rem)) ELSE m
    IN IF m.abort # "" \/ rem = 0 THEN m
       ELSE [m1 EXCEPT !.part = part1,
                       !.fold = partial_fold(m.fold, part1, rem),
                       !.partials = Append(m.partials, rem)]

\* the local state on entry
locals(fold, dst, init_crc) ==
    [fold |-> fold, pos |-> 0, dpos |-> 0, init_crc |-> init_crc,
     part |-> xmm_zero, dst |-> dst, wr |-> [i \in 1..Len(dst) |-> 0],
     oob |-> FALSE, abort |-> "", prog |-> <<>>, seeds |-> <<>>,
     preload |-> FALSE, partials |-> <<>>]

\* Accumulator::fold_help::<COPY>(dst, src, init_crc) on lanes fold
fold_help(COPY, fold, dst, src, addr, init_crc) ==
    LET m0 == locals(fold, dst, init_crc)
    IN IF ~(Len(src) >= 31 \/ init_crc # CRC32_INITIAL_VALUE)
       THEN Panic(m0, "assert_len")
       ELSE IF COPY /\ Len(dst) # Len(src)
       THEN Panic(m0, "assert_eq")
       ELSE IF Len(src) < 16
       THEN IF COPY
            THEN IF Len(src) = 0 THEN m0
                 ELSE tail(COPY, src, Store([m0 EXCEPT !.part = RegOfBytes(src)], 0, src))
            ELSE tail(COPY, src, m0)
       ELSE tail(COPY, src, bulk_rest(COPY, src, bulk4(COPY, src, head(COPY, src, addr, m0))))

(***************************************************************************)
(* crate::crc32::crc32_braid, the scalar fallback: the standard reflected  *)
(* CRC32 (polynomial 0xEDB88320, xor-out 0xFFFFFFFF) of buf continued      *)
(* from the running value start.                                           *)
(***************************************************************************)
POLY == U32(\hEDB8, \h8320)

\* one bit of the reflected division
crc_shift(c) ==
    IF 0 \in c THEN {k \in 0..31 : ((k + 1) \in c) # (k \in POLY)}
    ELSE {k \in 0..31 : (k + 1) \in c}

CRC_TABLE ==
    [n \in 0..255 |->
        crc_shift(crc_shift(crc_shift(crc_shift(
        crc_shift(crc_shift(crc_shift(crc_shift(BitsOf(n, 8)))))))))]

\* the register c after one more byte b
crc_update(c, b) ==
    LET idx == ByteOf({k \in 0..7 : (k \in c) # ((b \div Pow2(k)) % 2 = 1)}, 0)
    IN {k \in 0..31 : (k \in CRC_TABLE[idx]) # ((k + 8) \in c)}

\* the register c after the bytes buf[lo..hi]
RECURSIVE crc_bytes(_, _, _, _)
crc_bytes(buf, lo, hi, c) ==
    IF lo > hi THEN c
    ELSE LET c1 == crc_update(c, buf[lo])
         IN IF c1 \subseteq 0..31 THEN crc_bytes(buf, lo + 1, hi, c1) ELSE {}

\* the register c after the bytes buf[i..], taken 16 at a time; the guard
\* keeps the register a u32 (and has each group's register evaluated
\* before the next group)
RECURSIVE crc_run(_, _, _)
crc_run(buf, i, c) ==
    IF i > Len(buf) THEN c
    ELSE LET c1 == crc_bytes(buf, i, Min(i + 15, Len(buf)), c)
         IN IF c1 \subseteq 0..31 THEN crc_run(buf, i + 16, c1) ELSE {}

crc32_braid(buf, start) == NotU32(crc_run(buf, 1, NotU32(start)))

(***************************************************************************)
(* Crc32Fold and the one-shot entry points, as functions of their          *)
(* arguments.  self is [fold, value]; hw is what is_pclmulqdq() returns;   *)
(* addr is src.as_ptr() modulo 16.  Each returns the new self and the      *)
(* record m of what the call did (m.abort # "" when it panicked).          *)
(***************************************************************************)
\* Crc32Fold::new
Crc32Fold_new == [fold |-> Accumulator_new, value |-> {}]

\* Crc32Fold::fold
Crc32Fold_fold(hw, self, src, addr, start) ==
    IF hw
    THEN LET m == fold_help(FALSE, self.fold, <<>>, src, addr, start)
         IN [self |-> [self EXCEPT !.fold = m.fold], m |-> m]
    ELSE [self |-> [self EXCEPT !.value = crc32_braid(src, self.value)],
          m |-> locals(self.fold, <<>>, start)]

\* Crc32Fold::fold_copy
Crc32Fold_fold_copy(hw, self, dst, src, addr) ==
    IF hw
    THEN LET m == fold_help(TRUE, self.fold, dst, src, addr, CRC32_INITIAL_VALUE)
         IN [self |-> [self EXCEPT !.fold = m.fold], m |-> m]
    ELSE LET m0 == locals(self.fold, dst, CRC32_INITIAL_VALUE)
         IN [self |-> [self EXCEPT !.value = crc32_braid(src, self.value)],
             \* dst[..src.len()].copy_from_slice(src)
             m |-> IF Len(src) > Len(dst) THEN Panic(m0, "slice") ELSE Store(m0, 0, src)]

\* Crc32Fold::finish
Crc32Fold_finish(hw, self) == IF hw THEN Accumulator_finish(self.fold) ELSE self.value

\* the result of a one-shot call: the facade it used, what the call did,
\* and the value it returns when it does not panic
OneShot(hw, r) ==
    [self |-> r.self, m |-> r.m,
     result |-> IF r.m.abort = "" THEN Crc32Fold_finish(hw, r.self) ELSE {}]

\* pub fn crc32(buf, start)
crc32(hw, buf, addr, start) ==
    IF Len(buf) < 64
    THEN [self |-> Crc32Fold_new, m |-> locals(Accumulator_new, <<>>, start),
          result |-> crc32_braid(buf, start)]
    ELSE OneShot(hw, Crc32Fold_fold(hw, Crc32Fold_new, buf, addr, start))

\* pub fn crc32_copy(dst, buf)
crc32_copy(hw, dst, buf, addr) ==
    IF Len(buf) < 64
    THEN LET m0 == locals(Accumulator_new, dst, CRC32_INITIAL_VALUE)
         IN [self |-> Crc32Fold_new,
             \* dst.copy_from_slice(buf) panics unless the lengths are equal
             m |-> IF Len(dst) # Len(buf) THEN Panic(m0, "copy_from_slice")
                   ELSE Store(m0, 0, buf),
             result |-> IF Len(dst) # Len(buf) THEN {}
                        ELSE crc32_braid(buf, CRC32_INITIAL_VALUE)]
    ELSE OneShot(hw, Crc32Fold_fold_copy(hw, Crc32Fold_new, dst, buf, addr))

(***************************************************************************)
(* The inputs the model draws.                                             *)
(***************************************************************************)
\* the longest stream, in bytes
MaxLen == 16 * MaxBlocks + 15

\* test::INPUT, continued periodically: the byte at index i
INPUT(i) == i % 256

\* the len bytes of memory from index off
Bytes(off, len) == [i \in 1..len |-> INPUT(off + i - 1)]

\* where the stream starts in INPUT
Offsets == {7}

\* the address of the stream's first byte, modulo 16
Aligns == {0, 9, 13}

\* the seeds (start values) passed
Starts == {CRC32_INITIAL_VALUE, U32(\h1234, \h5678)}

\* the chunk lengths fed to fold and fold_copy
ChunkLens == {3, 20, 64, 67, 80}

\* the buffer lengths of the one-shot calls
Lens == {0, 1, 15, 16, 17, 31, 32, 47, 48, 63, 64, 65, 67, 80, 128, 143}

\* the destination lengths tried with a source of len bytes
DstLens(len) == {n \in {len - 1, len, len + 1} : n >= 0}

\* a fresh destination buffer of n bytes
Zeroes(n) == [i \in 1..n |-> 0]

(***************************************************************************)
(* The state machine: one Crc32Fold and the stream fed to it, or one       *)
(* one-shot call.                                                          *)
(*   hw      is_pclmulqdq()                                                *)
(*   pc      "open" (constructed), "done" (a value was returned),          *)
(*           "panic" (a call panicked)                                     *)
(*   fold, value   the fields of Crc32Fold                                 *)
(*   mem     [off, addr]: where the stream lies                            *)
(*   pos     the bytes of the stream consumed                              *)
(*   hist    the calls made: [op, len, start, dlen, at, addr], at the      *)
(*           stream offset and addr the address modulo 16 of the chunk     *)
(*   last    what the last call did (the record m of fold_help)            *)
(*   result  the value returned                                            *)
(***************************************************************************)
VARIABLES hw, pc, fold, value, mem, pos, hist, last, result

vars == <<hw, pc, fold, value, mem, pos, hist, last, result>>

Init ==
    /\ hw \in BOOLEAN
    /\ pc = "open"
    /\ fold = Crc32Fold_new.fold
    /\ value = Crc32Fold_new.value
    /\ mem \in [off : Offsets, addr : Aligns]
    /\ pos = 0
    /\ hist = <<>>
    /\ last = locals(Accumulator_new, <<>>, CRC32_INITIAL_VALUE)
    /\ result = {}

Call(op, len, start, dlen) ==
    [op |-> op, len |-> len, start |-> start, dlen |-> dlen, at |-> pos,
     addr |-> (mem.addr + pos) % 16]

\* the facade after a call that returned r
Returned(r, len) ==
    /\ pc' = IF r.m.abort = "" THEN "open" ELSE "panic"
    /\ fold' = r.self.fold
    /\ value' = r.self.value
    /\ pos' = pos + len
    /\ last' = r.m
    /\ UNCHANGED <<hw, mem, result>>

\* crc_state.fold(src, start)
Fold(len, start) ==
    /\ pc = "open"
    /\ Len(hist) < MaxCalls
    /\ pos + len <= MaxLen
    /\ hist' = Append(hist, Call("fold", len, start, 0))
    /\ Returned(Crc32Fold_fold(hw, [fold |-> fold, value |-> value],
                               Bytes(mem.off + pos, len), mem.addr + pos, start), len)

\* crc_state.fold_copy(dst, src)
FoldCopy(len, dlen) ==
    /\ pc = "open"
    /\ Len(hist) < MaxCalls
    /\ pos + len <= MaxLen
    /\ hist' = Append(hist, Call("fold_copy", len, CRC32_INITIAL_VALUE, dlen))
    /\ Returned(Crc32Fold_fold_copy(hw, [fold |-> fold, value |-> value], Zeroes(dlen),
                                    Bytes(mem.off + pos, len), mem.addr + pos), len)

\* crc_state.finish()
Finish ==
    /\ pc = "open"
    /\ hist # <<>>
    /\ pc' = "done"
    /\ result' = Crc32Fold_finish(hw, [fold |-> fold, value |-> value])
    /\ UNCHANGED <<hw, fold, value, mem, pos, hist, last>>

\* a one-shot call that returned r
OneShotDone(r, len) ==
    /\ pc' = IF r.m.abort = "" THEN "done" ELSE "panic"
    /\ fold' = r.self.fold
    /\ value' = r.self.value
    /\ pos' = len
    /\ last' = r.m
    /\ result' = r.result
    /\ UNCHANGED <<hw, mem>>

\* crc32(buf, start)
Crc32(len, start) ==
    /\ pc = "open"
    /\ hist = <<>>
    /\ len <= MaxLen
    /\ hist' = <<Call("crc32", len, start, 0)>>
    /\ OneShotDone(crc32(hw, Bytes(mem.off, len), mem.addr, start), len)

\* crc32_copy(dst, buf)
Crc32Copy(len, dlen) ==
    /\ pc = "open"
    /\ hist = <<>>
    /\ len <= MaxLen
    /\ hist' = <<Call("crc32_copy", len, CRC32_INITIAL_VALUE, dlen)>>
    /\ OneShotDone(crc32_copy(hw, Zeroes(dlen), Bytes(mem.off, len), mem.addr), len)

Next ==
    \/ \E len \in ChunkLens, start \in Starts : Fold(len, start)
    \/ \E len \in ChunkLens : \E dlen \in DstLens(len) : FoldCopy(len, dlen)
    \/ Finish
    \/ \E len \in Lens, start \in Starts : Crc32(len, start)
    \/ \E len \in Lens : \E dlen \in DstLens(len) : Crc32Copy(len, dlen)

Spec == Init /\ [][Next]_vars

(***************************************************************************)
(* A second state machine, for the folding primitives on their own: the    *)
(* lanes fold start from a small set of accumulator states, and            *)
(* fold_step::<N> and progress::<N, false> are applied to them over an     *)
(* aligned stream of MaxBlocks blocks (pos bytes of it consumed).          *)
(***************************************************************************)
\* the accumulator states the folding primitives start from
LaneStates ==
    {Accumulator_new}
        \cup {[i \in 1..4 |-> RegOfBytes(Bytes(o + 16 * (i - 1), 16))] : o \in {0, 100}}

InitStep ==
    /\ hw = TRUE
    /\ pc = "open"
    /\ fold \in LaneStates
    /\ value = {}
    /\ mem \in [off : Offsets, addr : {0}]
    /\ pos = 0
    /\ hist = <<>>
    /\ last = locals(fold, <<>>, CRC32_INITIAL_VALUE)
    /\ result = {}

\* self.fold_step::<N>()
FoldStep(N) ==
    /\ pc = "open"
    /\ Len(hist) < MaxCalls
    /\ fold' = fold_step(N, fold)
    /\ hist' = Append(hist, Call("fold_step", N, CRC32_INITIAL_VALUE, 0))
    /\ UNCHANGED <<hw, pc, value, mem, pos, last, result>>

\* self.progress::<N, false>(&mut [], &mut src, &mut 0) with src the next k
\* blocks of the stream
Progress(N, k) ==
    /\ pc = "open"
    /\ Len(hist) < MaxCalls
    /\ pos + 16 * k <= 16 * MaxBlocks
    /\ LET m == progress(N, FALSE, Bytes(mem.off + pos, 16 * k),
                         locals(fold, <<>>, CRC32_INITIAL_VALUE))
       IN /\ pc' = IF m.abort = "" THEN "open" ELSE "panic"
          /\ fold' = m.fold
          /\ pos' = pos + m.pos
          /\ last' = m
    /\ hist' = Append(hist, Call("progress", 16 * k, CRC32_INITIAL_VALUE, 0))
    /\ UNCHANGED <<hw, value, mem, result>>

NextStep ==
    \/ \E N \in 1..4 : FoldStep(N)
    \/ \E N \in 1..4 : \E k \in {N, N + 3} : Progress(N, k)

SpecStep == InitStep /\ [][NextStep]_vars

(***************************************************************************)
(* Properties.                                                             *)
(***************************************************************************)
\* the last call made, its source bytes and its align_diff
LastCall == hist[Len(hist)]

LastSrc == Bytes(mem.off + LastCall.at, LastCall.len)

LastAlignDiff == (16 - LastCall.addr) % 16

\* the whole stream fed so far
Stream == Bytes(mem.off, pos)

\* the last call ran Accumulator::fold_help
RanFoldHelp ==
    /\ hist # <<>>
    /\ hw
    /\ \/ LastCall.op \in {"fold", "fold_copy"}
       \/ LastCall.op \in {"crc32", "crc32_copy"} /\ LastCall.len >= 64

\* C1: the one-shot crc32(v, s) returns the standard reflected CRC32 of v
\* with initial value s, for every length, alignment and seed, on the
\* hardware path and on the fallback path.
C1_Crc32IsReference ==
    (hist # <<>> /\ LastCall.op = "crc32")
        => /\ pc = "done"
           /\ result = crc32_braid(Stream, LastCall.start)

\* C2: crc32_copy(dst, v) with dst.len() = v.len() returns what crc32(v, 0)
\* returns and leaves dst equal to v.
C2_CopyIsCrc32AndCopies ==
    (hist # <<>> /\ LastCall.op = "crc32_copy" /\ LastCall.dlen = LastCall.len)
        => /\ pc = "done"
           /\ last.dst = Stream
           /\ LET c == crc32(hw, Stream, mem.addr, CRC32_INITIAL_VALUE)
              IN c.m.abort = "" /\ result = c.result

\* every call so far was fold, with a zero start on all but the first
OnlyFoldsSeededOnce ==
    /\ hist # <<>>
    /\ \A k \in 1..Len(hist) :
          /\ hist[k].op = "fold"
          /\ k > 1 => hist[k].start = CRC32_INITIAL_VALUE

\* one fold call with the whole stream, then finish
SingleFold ==
    OneShot(hw, Crc32Fold_fold(hw, Crc32Fold_new, Stream, mem.addr, hist[1].start))

\* C3: feeding the stream chunk by chunk (seed on the first call only) and
\* finishing returns what one fold call with the whole stream and finish
\* return.
C3_ChunkingInvariance ==
    (OnlyFoldsSeededOnce /\ pc \in {"done", "panic"} /\ SingleFold.m.abort = "")
        => /\ pc = "done"
           /\ result = SingleFold.result

\* C4: the copy variant called with dst.len() # src.len() panics, on every
\* path.
C4_LengthMismatchAborts ==
    (hist # <<>> /\ LastCall.op \in {"fold_copy", "crc32_copy"}
                 /\ LastCall.dlen # LastCall.len)
        => pc = "panic"

\* C5: no call through the public API fails the precondition assertion at
\* the top of fold_help (at least 31 bytes, or a non-zero seed).
C5_FoldHelpPreconditionHolds == last.abort # "assert_len"

\* the call sequence hist with the start of every non-first call replaced
\* by zero, run on a new Crc32Fold: the facade after the first k calls
RECURSIVE ZeroLaterStarts(_)
ZeroLaterStarts(k) ==
    IF k = 0 THEN [self |-> Crc32Fold_new, m |-> locals(Accumulator_new, <<>>, {})]
    ELSE LET p == ZeroLaterStarts(k - 1)
             c == hist[k]
         IN IF p.m.abort # "" THEN p
            ELSE Crc32Fold_fold(hw, p.self, Bytes(mem.off + c.at, c.len), c.addr,
                                IF k = 1 THEN c.start ELSE CRC32_INITIAL_VALUE)

\* C6 as stated: on the hardware path the start of a non-first fold call is
\* disregarded, so finish returns the same value as for the same calls with
\* those starts zero.
C6_LaterStartDisregarded ==
    (hw /\ pc = "done" /\ \A k \in 1..Len(hist) : hist[k].op = "fold")
        => LET z == OneShot(hw, ZeroLaterStarts(Len(hist)))
           IN z.m.abort = "" => result = z.result

\* C6 as amended: on the hardware path every fold call XORs its own start at
\* most once, into the first 16-byte block the call loads, and clears it; a
\* call that returns with a non-zero start and at least 16 bytes has XORed
\* it, whether or not it is the first call, and a call of fewer than 16
\* bytes never does.
C6_SeedOncePerCall ==
    (hw /\ hist # <<>> /\ LastCall.op = "fold")
        => /\ Len(last.seeds) <= 1
           /\ \A k \in 1..Len(last.seeds) : last.seeds[k] = 0
           /\ last.seeds # <<>> => last.init_crc = CRC32_INITIAL_VALUE
           /\ (LastCall.start = CRC32_INITIAL_VALUE \/ LastCall.len < 16)
                 => last.seeds = <<>>
           /\ (last.abort = "" /\ LastCall.start # CRC32_INITIAL_VALUE /\ LastCall.len >= 16)
                 => last.seeds = <<0>>

\* a second fold call whose non-zero start was XORed into its first block,
\* and the value finish then returned
C6_Witness ==
    /\ hw
    /\ pc = "done"
    /\ Len(hist) = 2
    /\ LastCall.op = "fold"
    /\ LastCall.start # CRC32_INITIAL_VALUE
    /\ last.seeds = <<0>>

\* C7: every progress::<N> call is made for the largest N with N*16 bytes
\* remaining and succeeds, so that fewer than 16 bytes are left for the
\* final partial fold.
C7_ProgressSucceeds ==
    RanFoldHelp
        => \A k \in 1..Len(last.prog) :
              LET N == last.prog[k][1]
                  rem == last.prog[k][2]
              IN /\ rem >= N * 16
                 /\ N < 4 => rem < (N + 1) * 16
                 /\ last.prog[k][3]

\* C8: in fold on the hardware path, with align_diff in 1..3 and a non-zero
\* seed, the extra block is pre-loaded and folded before the first
\* partial_fold (seen on the calls that return).
C8_ExtraBlockFolded ==
    (RanFoldHelp /\ LastCall.op \in {"fold", "crc32"} /\ LastCall.len >= 32
                 /\ LastAlignDiff \in 1..3 /\ LastCall.start # CRC32_INITIAL_VALUE
                 /\ last.abort = "")
        => /\ last.preload
           /\ last.partials[1] = LastAlignDiff

\* the last call was a copy through fold_help with dst.len() = src.len()
CopiedByFoldHelp ==
    /\ RanFoldHelp
    /\ LastCall.op \in {"fold_copy", "crc32_copy"}
    /\ LastCall.dlen = LastCall.len

\* C9 as stated: a copy that returns has stored every destination byte
\* exactly once and nothing outside the destination.
C9_EachByteStoredOnce ==
    (CopiedByFoldHelp /\ last.abort = "")
        => /\ ~last.oob
           /\ \A i \in 1..LastCall.len : last.wr[i] = 1

\* C9 as amended: every store stays inside dst[0..src.len()) and stores the
\* source's bytes; no byte is stored more than twice, and the bytes stored
\* twice are bytes align_diff..15 of an unaligned source, which the
\* unaligned 16-byte head store and the store that follows it both write;
\* a copy that returns has stored every byte.
C9_StoresInBoundsAtMostTwice ==
    CopiedByFoldHelp
        => /\ ~last.oob
           /\ \A i \in 1..LastCall.len :
                 /\ last.wr[i] <= 2
                 /\ last.wr[i] = 2 => (LastAlignDiff # 0 /\ LastAlignDiff < i /\ i <= 16)
                 /\ last.wr[i] > 0 => last.dst[i] = LastSrc[i]
                 /\ last.abort = "" => last.wr[i] >= 1
                 /\ (last.abort = "" /\ LastAlignDiff # 0 /\ LastAlignDiff < i /\ i <= 16)
                       => last.wr[i] = 2

\* a copy from an unaligned source that returned, with a byte stored twice
C9_Witness ==
    /\ CopiedByFoldHelp
    /\ last.abort = ""
    /\ LastAlignDiff # 0
    /\ \E i \in 1..LastCall.len : last.wr[i] = 2
    /\ last.dst = LastSrc

\* N successive fold_step::<1> calls
RECURSIVE fold_step_seq(_, _)
fold_step_seq(N, f) == IF N = 0 THEN f ELSE fold_step(1, fold_step_seq(N - 1, f))

\* N successive progress::<1> calls
RECURSIVE progress_seq(_, _, _)
progress_seq(N, src, m) ==
    IF N = 0 THEN m
    ELSE LET p == progress_seq(N - 1, src, m)
         IN IF p.abort # "" THEN p ELSE progress(1, FALSE, src, p)

\* C10, the fold_step half alone: fold_step::<N> equals N successive
\* fold_step::<1> calls.
C10_FoldStepBatching ==
    pc = "open" => \A N \in 1..4 : fold_step(N, fold) = fold_step_seq(N, fold)

\* C10: on every accumulator state, fold_step::<N> equals N successive
\* fold_step::<1> calls, and progress::<N> on the next N blocks (zero seed)
\* produces the lanes that N successive progress::<1> calls on those blocks
\* produce.
C10_Batching ==
    pc = "open"
        => \A N \in 1..4 :
              LET src == Bytes(mem.off + pos, 16 * N)
                  m == locals(fold, <<>>, CRC32_INITIAL_VALUE)
                  batch == progress(N, FALSE, src, m)
                  seq == progress_seq(N, src, m)
              IN /\ fold_step(N, fold) = fold_step_seq(N, fold)
                 /\ batch.abort = ""
                 /\ seq.abort = ""
                 /\ batch.fold = seq.fold

====
